---- MODULE Spec2Model ----
(***************************************************************************)
(* Model of backend/app.py of image-vectorizer: the /process request       *)
(* handler (process_images) with its helpers, and the geometry of the      *)
(* grid composition and of center_scale_to_canvas.                         *)
(*                                                                         *)
(* Two specifications share the variables:                                 *)
(*   Spec      one /process request, from the dependency check to the      *)
(*             response, the external tools' outcomes nondeterministic;    *)
(*   GeomSpec  the grid layout of lines 208-218 and center_scale_to_canvas *)
(*             applied to bitmaps drawn from a bounded set of sizes.       *)
(***************************************************************************)
EXTENDS Integers, Sequences, FiniteSets, TLC

VARIABLES
    pc,               \* position of the request in process_images
    failedFrom,       \* the position the request failed from ("" while it has not)
    deps_ok,          \* all(check_dependencies().values())
    nfiles,           \* len(request.files.getlist('files')); -1: no 'files' field
    include_eps,      \* request option, line 142
    group_by_prefix,  \* request option, line 143
    files,            \* the uploads the loop of line 162 has consumed, in order
    temp_dir,         \* whether tempfile.mkdtemp()'s directory exists
    temp_bw,          \* temp_bw_dir:      file name -> bitmap
    output_svg,       \* output_svg_dir:   set of files
    output_eps,       \* output_eps_dir:   set of files
    output_group,     \* output_group_dir: set of files
    groups,           \* groups (defaultdict(list)), in key insertion order
    processed_files,  \* processed_files, as indices into files
    gidx,             \* number of groups.items() the loop of line 204 has consumed
    composed,         \* prefixes whose composition (lines 208-233) was started
    response,         \* the HTTP response: status and, for 200, the zip's entries
    gstage,           \* GeomSpec: "in", "grid", "fit"
    bitmaps,          \* GeomSpec: [count, w, h]: count same-size w x h bitmaps
    image,            \* GeomSpec: size of the current image (input or composite)
    cells,            \* GeomSpec: paste offset of bitmap i in the composite
    grid,             \* GeomSpec: [cols, rows] of the composite
    fit               \* GeomSpec: outcome of center_scale_to_canvas

vars == <<pc, failedFrom, deps_ok, nfiles, include_eps, group_by_prefix, files,
          temp_dir, temp_bw, output_svg, output_eps, output_group, groups,
          processed_files, gidx, composed, response,
          gstage, bitmaps, image, cells, grid, fit>>

reqVars == <<pc, failedFrom, deps_ok, nfiles, include_eps, group_by_prefix, files,
             temp_dir, temp_bw, output_svg, output_eps, output_group, groups,
             processed_files, gidx, composed, response>>

geomVars == <<gstage, bitmaps, image, cells, grid, fit>>

(***************************************************************************)
(* Python floats: IEEE-754 binary64, round to nearest, ties to even.       *)
(* A positive float is [m, e]: m a sequence of MantBits bits, most         *)
(* significant first and m[1] = 1, standing for m * 2^e.                   *)
(***************************************************************************)
MantBits == 53

\* Bit sequences are handled ChunkBits bits at a time.
ChunkBits == 8

Pow2(n) == 2 ^ n

RECURSIVE ToBits(_)
ToBits(n) == IF n = 0 THEN <<>> ELSE Append(ToBits(n \div 2), n % 2)

RECURSIVE FromBits(_)
FromBits(b) ==
    IF b = <<>> THEN 0 ELSE 2 * FromBits(SubSeq(b, 1, Len(b) - 1)) + b[Len(b)]

\* v as exactly n bits.
Padded(v, n) == [i \in 1..n |-> (v \div Pow2(n - i)) % 2]

Zeros(n) == [i \in 1..n |-> 0]

\* b without its leading zeros (b holds a 1).
StripLeading(b) ==
    LET first == CHOOSE i \in 1..Len(b) : b[i] = 1 /\ \A j \in 1..(i - 1) : b[j] = 0
    IN  SubSeq(b, first, Len(b))

\* b + 1.
Increment(b) ==
    IF \A i \in 1..Len(b) : b[i] = 1 THEN <<1>> \o Zeros(Len(b))
    ELSE LET k == CHOOSE i \in 1..Len(b) : b[i] = 0 /\ \A j \in (i + 1)..Len(b) : b[j] = 1
         IN  SubSeq(b, 1, k - 1) \o <<1>> \o Zeros(Len(b) - k)

\* bits * 2^e (bits without leading zero, sticky: a nonzero remainder below
\* the last bit) rounded to the nearest float, ties to even.
RoundNearestEven(b, e, sticky) ==
    IF Len(b) <= MantBits
    THEN [m |-> b \o Zeros(MantBits - Len(b)), e |-> e - (MantBits - Len(b))]
    ELSE LET keep == SubSeq(b, 1, MantBits)
             rest == sticky \/ \E i \in (MantBits + 2)..Len(b) : b[i] = 1
             up   == b[MantBits + 1] = 1 /\ (rest \/ keep[MantBits] = 1)
             e1   == e + (Len(b) - MantBits)
             inc  == Increment(keep)
         IN  IF ~up THEN [m |-> keep, e |-> e1]
             ELSE IF Len(inc) > MantBits
                  THEN [m |-> SubSeq(inc, 1, MantBits), e |-> e1 + 1]
                  ELSE [m |-> inc, e |-> e1]

\* Long division of r / b (r < b): k chunks of quotient bits and the remainder.
RECURSIVE FracBits(_, _, _)
FracBits(r, b, k) ==
    IF k = 0 THEN [bits |-> <<>>, r |-> r]
    ELSE LET q    == (r * Pow2(ChunkBits)) \div b
             next == FracBits((r * Pow2(ChunkBits)) % b, b, k - 1)
         IN  [bits |-> Padded(q, ChunkBits) \o next.bits, r |-> next.r]

\* Chunks of fraction bits that hold MantBits + 1 significant bits of a
\* quotient whose divisor is below 2^(2 * ChunkBits).
DivChunks == (MantBits + 1) \div ChunkBits + 3

\* a / b of two positive ints (true division, correctly rounded).
FDiv(a, b) ==
    LET f == FracBits(a % b, b, DivChunks)
    IN  RoundNearestEven(StripLeading(ToBits(a \div b) \o f.bits),
                         -(DivChunks * ChunkBits), f.r # 0)

\* Column c of the long multiplication of a by b: the number of pairs of
\* 1 bits whose product has the weight of column c (0 outside the columns).
ColSum(a, b, c) ==
    IF c < 1 THEN 0
    ELSE Cardinality({i \in 1..Len(a) :
                        /\ c + 1 - i \in 1..Len(b)
                        /\ a[i] = 1
                        /\ b[c + 1 - i] = 1})

RECURSIVE ChunkSum(_, _, _, _)
ChunkSum(a, b, c, t) ==
    IF t = ChunkBits THEN 0
    ELSE ColSum(a, b, c - t) * Pow2(t) + ChunkSum(a, b, c, t + 1)

\* The columns up to c, with the carry out of the columns after c.
RECURSIVE Carry(_, _, _, _)
Carry(a, b, c, carry) ==
    IF c < 1 THEN ToBits(carry)
    ELSE LET v == ChunkSum(a, b, c, 0) + carry
         IN  Carry(a, b, c - ChunkBits, v \div Pow2(ChunkBits))
                 \o Padded(v % Pow2(ChunkBits), ChunkBits)

\* The exact product of two bit sequences.
MulBits(a, b) == StripLeading(Carry(a, b, Len(a) + Len(b) - 1, 0))

\* Trailing zero bits carry no value: drop them, raising the exponent.
Strip(x) ==
    LET last == CHOOSE i \in 1..Len(x.m) : x.m[i] = 1 /\ \A j \in (i + 1)..Len(x.m) : x.m[j] = 0
    IN  [m |-> SubSeq(x.m, 1, last), e |-> x.e + (Len(x.m) - last)]

FMul(x, y) ==
    LET a == Strip(x)
        b == Strip(y)
    IN  RoundNearestEven(MulBits(a.m, b.m), a.e + b.e, FALSE)

\* float(n) of a positive int below 2^53: exact.
IntToFloat(n) == RoundNearestEven(ToBits(n), 0, FALSE)

BitsLess(a, b) ==
    \E i \in 1..Len(a) : a[i] < b[i] /\ \A j \in 1..(i - 1) : a[j] = b[j]

FLess(x, y) == x.e < y.e \/ (x.e = y.e /\ BitsLess(x.m, y.m))

\* min(x, y) of Python: the first of the smallest.
FMin(x, y) == IF FLess(y, x) THEN y ELSE x

\* int(x): truncation toward zero (here of a float below 2^31).
FloatToInt(x) ==
    IF x.e >= 0 THEN FromBits(x.m \o Zeros(x.e))
    ELSE IF MantBits + x.e < 1 THEN 0
    ELSE FromBits(SubSeq(x.m, 1, MantBits + x.e))

(***************************************************************************)
(* Geometry: center_scale_to_canvas (lines 59-71) and the grid of lines    *)
(* 208-218.  An image is its size <<width, height>>.                       *)
(***************************************************************************)
FINAL_SIZE == <<3000, 3000>>

\* scale_factor=0.85: the float nearest to 85/100 = 17/20.
ScaleNum == 17
ScaleDen == 20
scale_factor == FDiv(ScaleNum, ScaleDen)

\* x rounded to the nearest integer, a half upward: what int() is not.
RoundHalfUp(x) ==
    FloatToInt(x) +
        (IF x.e < 0 /\ MantBits + x.e >= 0 /\ x.m[MantBits + x.e + 1] = 1 THEN 1 ELSE 0)

\* int(w * scale) of lines 64-65.
Truncate(x) == FloatToInt(x)

\* Lines 61-70.  Image.resize raises ValueError ("height and width must be
\* > 0") for a size with a zero; nothing after it runs then.
center_scale_to_canvas(img, size) ==
    LET w        == img[1]
        h        == img[2]
        target_w == size[1]
        target_h == size[2]
        scale    == FMul(FMin(FDiv(target_w, w), FDiv(target_h, h)), scale_factor)
        new_w    == Truncate(FMul(IntToFloat(w), scale))
        new_h    == Truncate(FMul(IntToFloat(h), scale))
    IN  IF new_w < 1 \/ new_h < 1
        THEN [raised |-> TRUE, new_w |-> new_w, new_h |-> new_h,
              offset |-> <<0, 0>>, canvas |-> <<0, 0>>]
        ELSE [raised |-> FALSE, new_w |-> new_w, new_h |-> new_h,
              offset |-> <<(target_w - new_w) \div 2, (target_h - new_h) \div 2>>,
              canvas |-> size]

\* math.ceil(math.sqrt(count)), line 210: one more than the number of
\* integers whose square is below count.
GridCols(count) == Cardinality({c \in 1..count : c * c < count}) + 1

\* count // cols: the rows of a grid that drops its last, partial row.
FloorRows(count, cols) == count \div cols

\* math.ceil(count / cols), line 211.
GridRows(count, cols) == (count + cols - 1) \div cols

\* Lines 214-218: the composite's size and where bitmap idx is pasted.
CompositeSize(count, w, h) ==
    <<GridCols(count) * w, GridRows(count, GridCols(count)) * h>>

PasteAt(count, idx, w, h) ==
    <<(idx % GridCols(count)) * w, (idx \div GridCols(count)) * h>>

(***************************************************************************)
(* GeomSpec: count same-size bitmaps are drawn, composed into a grid and   *)
(* the composite (or a single bitmap) is fitted to FINAL_SIZE.             *)
(***************************************************************************)
MaxCount == 5
MaxDim == 6
ExampleDims == {10, 35, 50, 100, 3000}
Dims == (1..MaxDim) \cup ExampleDims

NoFit == [raised |-> FALSE, new_w |-> 0, new_h |-> 0,
          offset |-> <<0, 0>>, canvas |-> <<0, 0>>]

ReqIdle ==
    /\ pc = "Idle" /\ failedFrom = "" /\ deps_ok = TRUE /\ nfiles = 0
    /\ include_eps = TRUE /\ group_by_prefix = TRUE /\ files = <<>>
    /\ temp_dir = FALSE /\ temp_bw = {} /\ output_svg = {} /\ output_eps = {}
    /\ output_group = {} /\ groups = <<>> /\ processed_files = <<>>
    /\ gidx = 0 /\ composed = {} /\ response = [status |-> 0, zip |-> {}]

GeomIdle ==
    /\ gstage = "idle" /\ bitmaps = [count |-> 0, w |-> 0, h |-> 0]
    /\ image = <<0, 0>> /\ cells = <<>> /\ grid = [cols |-> 0, rows |-> 0]
    /\ fit = NoFit

GeomInit ==
    /\ ReqIdle
    /\ gstage = "in"
    /\ \E count \in 1..MaxCount, w \in Dims, h \in Dims :
         /\ bitmaps = [count |-> count, w |-> w, h |-> h]
         /\ image = <<w, h>>
    /\ cells = <<>>
    /\ grid = [cols |-> 0, rows |-> 0]
    /\ fit = NoFit

\* Lines 208-218, entered only for a group of more than one bitmap (line 205).
ComposeGrid ==
    /\ gstage = "in"
    /\ bitmaps.count > 1
    /\ gstage' = "grid"
    /\ grid' = [cols |-> GridCols(bitmaps.count),
                rows |-> GridRows(bitmaps.count, GridCols(bitmaps.count))]
    /\ image' = CompositeSize(bitmaps.count, bitmaps.w, bitmaps.h)
    /\ cells' = [i \in 1..bitmaps.count |->
                    PasteAt(bitmaps.count, i - 1, bitmaps.w, bitmaps.h)]
    /\ UNCHANGED <<bitmaps, fit>>
    /\ UNCHANGED reqVars

\* center_scale_to_canvas(image, FINAL_SIZE).
CenterScale ==
    /\ gstage \in {"in", "grid"}
    /\ gstage' = "fit"
    /\ fit' = center_scale_to_canvas(image, FINAL_SIZE)
    /\ UNCHANGED <<bitmaps, image, cells, grid>>
    /\ UNCHANGED reqVars

GeomNext == ComposeGrid \/ CenterScale

GeomSpec == GeomInit /\ [][GeomNext]_vars

(***************************************************************************)
(* File names (lines 42-44, 164-166).  A name is a sequence of characters. *)
(***************************************************************************)
Digits == {"0", "1", "2", "3", "4", "5", "6", "7", "8", "9"}
Letters == {"a", "b", "c", "d", "e", "f", "g", "h", "i", "j", "k", "l", "m",
            "n", "o", "p", "q", "r", "s", "t", "u", "v", "w", "x", "y", "z"}

Lower(c) ==
    CASE c = "P" -> "p" [] c = "N" -> "n" [] c = "G" -> "g"
      [] c = "J" -> "j" [] c = "E" -> "e" [] OTHER -> c

ALLOWED_EXTENSIONS == {<<"p", "n", "g">>, <<"j", "p", "g">>, <<"j", "p", "e", "g">>}

HasDot(s) == \E i \in 1..Len(s) : s[i] = "."
LastDot(s) == CHOOSE i \in 1..Len(s) : s[i] = "." /\ \A j \in (i + 1)..Len(s) : s[j] # "."

\* allowed_file, line 44.
allowed_file(filename) ==
    /\ HasDot(filename)
    /\ [i \in 1..(Len(filename) - LastDot(filename)) |->
            Lower(filename[LastDot(filename) + i])] \in ALLOWED_EXTENSIONS

\* s without the characters of drop at its two ends.
StripEnds(s, drop) ==
    IF \A i \in 1..Len(s) : s[i] \in drop THEN <<>>
    ELSE LET keep  == {i \in 1..Len(s) : s[i] \notin drop}
             first == CHOOSE i \in keep : \A j \in keep : i <= j
             last  == CHOOSE i \in keep : \A j \in keep : i >= j
         IN  SubSeq(s, first, last)

\* werkzeug's secure_filename on ASCII names without path separators:
\* whitespace becomes "_", other characters than letters, digits, "_", "."
\* and "-" are dropped, then "." and "_" are stripped from both ends.
secure_filename(filename) ==
    LET Safe(c) == c \in Letters \cup Digits \cup {"_", ".", "-",
                                                    "P", "N", "G", "J", "E"}
        spaced  == [i \in 1..Len(filename) |->
                        IF filename[i] = " " THEN "_" ELSE filename[i]]
    IN  StripEnds(SelectSeq(spaced, Safe), {".", "_"})

\* os.path.splitext(filename)[0], line 165.
base_name_of(filename) ==
    IF HasDot(filename) /\ LastDot(filename) > 1
    THEN SubSeq(filename, 1, LastDot(filename) - 1)
    ELSE filename

\* Line 166: the digits removed, "_" and "-" stripped from the right end,
\* or base_name itself when nothing is left.
prefix_of(base_name) ==
    LET NotDigit(c) == c \notin Digits
        letters     == SelectSeq(base_name, NotDigit)
        keep        == {i \in 1..Len(letters) : letters[i] \notin {"_", "-"}}
        stripped    == IF keep = {} THEN <<>>
                       ELSE SubSeq(letters, 1, CHOOSE i \in keep : \A j \in keep : i >= j)
    IN  IF stripped = <<>> THEN base_name ELSE stripped

(***************************************************************************)
(* The request (lines 120-268).                                            *)
(***************************************************************************)
MAX_FILE_SIZE == 10 * 1024 * 1024

\* Most uploads of one request.
MaxFiles == 2

\* What bytes that are no image decode to.
Undecodable == <<0, 0>>

Upload(name, len, img) == [filename |-> name, len |-> len, image |-> img]

\* The uploads a request draws from: [filename, len, image], len the number
\* of bytes and image what they decode to.  One has an extension that is
\* not allowed, one is a byte too long, one does not decode; a1.png and
\* a1.jpg share their base name, a1 and a2 their prefix, and two 1 x 6000
\* images make a composite that is far taller than wide.
Uploads ==
    {Upload(<<"a", "3", ".", "t", "x", "t">>, MAX_FILE_SIZE, <<100, 50>>),
     Upload(<<"a", "1", ".", "p", "n", "g">>, MAX_FILE_SIZE + 1, <<100, 50>>),
     Upload(<<"a", "1", ".", "j", "p", "g">>, MAX_FILE_SIZE, Undecodable),
     Upload(<<"a", "1", ".", "p", "n", "g">>, MAX_FILE_SIZE, <<100, 50>>),
     Upload(<<"a", "1", ".", "p", "n", "g">>, MAX_FILE_SIZE, <<1, 6000>>),
     Upload(<<"a", "1", ".", "j", "p", "g">>, MAX_FILE_SIZE, <<100, 50>>),
     Upload(<<"a", "2", ".", "p", "n", "g">>, MAX_FILE_SIZE, <<1, 6000>>),
     Upload(<<"7", ".", "p", "n", "g">>, MAX_FILE_SIZE, <<100, 50>>)}

\* How a run of an external tool ends: "ok", "fail" (nonzero exit, nothing
\* written) or "fail_written" (nonzero exit after writing its output file);
\* "not run" stands for a tool that was not run.
ToolOutcomes == {"ok", "fail", "fail_written"}

\* A file of a directory: [name, src, whole]: name is <<stem, suffix>>, src
\* the index in files of the upload it was made from (0: from a composite),
\* whole whether the tool that wrote it ended well.  stem \o suffix is the
\* file's name: no stem of Filenames ends in a suffix, so two names are
\* equal only if their stems and their suffixes are.
File(stem, suffix, src, whole) ==
    [name |-> <<stem, suffix>>, src |-> src, whole |-> whole]

Write(dir, f) == {g \in dir : g.name # f.name} \cup {f}
Remove(dir, name) == {g \in dir : g.name # name}

\* Lines 191-197 and 227-233: potrace -e into the raw file, Ghostscript
\* from the raw file into the final one (convert_to_cmyk_eps returns False
\* on an error, it does not raise), os.remove(raw); an exception of the
\* three is swallowed by "except: pass".
TraceAndConvert(dir, stem, rawSuffix, finalSuffix, src, pe, gs) ==
    IF pe = "ok"
    THEN LET traced    == Write(dir, File(stem, rawSuffix, src, TRUE))
             converted == CASE gs = "ok" -> Write(traced, File(stem, finalSuffix, src, TRUE))
                            [] gs = "fail_written" ->
                                    Write(traced, File(stem, finalSuffix, src, FALSE))
                            [] OTHER -> traced
         IN  Remove(converted, <<stem, rawSuffix>>)
    ELSE IF pe = "fail_written"
    THEN Write(dir, File(stem, rawSuffix, src, FALSE))
    ELSE dir

\* shutil.rmtree(temp_dir), lines 257 and 267.
RmTree ==
    /\ temp_dir' = FALSE
    /\ temp_bw' = {}
    /\ output_svg' = {}
    /\ output_eps' = {}
    /\ output_group' = {}

\* The directory left as it is: a handler without the rmtree of line 267.
LeaveTree == UNCHANGED <<temp_dir, temp_bw, output_svg, output_eps, output_group>>

\* Lines 266-268: any exception raised inside the try block.
ExceptHandler == RmTree

Fail(from, status) ==
    /\ pc' = "Failed"
    /\ failedFrom' = from
    /\ response' = [status |-> status, zip |-> {}]

ReqInit ==
    /\ GeomIdle
    /\ pc = "Received"
    /\ failedFrom = ""
    /\ deps_ok \in BOOLEAN
    /\ nfiles \in -1..MaxFiles
    /\ include_eps \in BOOLEAN
    /\ group_by_prefix \in BOOLEAN
    /\ files = <<>>
    /\ temp_dir = FALSE
    /\ temp_bw = {} /\ output_svg = {} /\ output_eps = {} /\ output_group = {}
    /\ groups = <<>>
    /\ processed_files = <<>>
    /\ gidx = 0
    /\ composed = {}
    /\ response = [status |-> 0, zip |-> {}]

\* Lines 124-143: the dependency check, the request's validation and its
\* options (int() of a threshold that is no number raises: a 500 as well).
\* nfiles = -1: no 'files' field; nfiles = 0: one upload with an empty name.
Receive ==
    /\ pc = "Received"
    /\ \/ /\ ~deps_ok
          /\ Fail("Received", 500)
       \/ /\ deps_ok /\ nfiles < 1
          /\ Fail("Received", 400)
       \/ /\ deps_ok /\ nfiles >= 1
          /\ \E threshold_is_int \in BOOLEAN :
                IF threshold_is_int
                THEN pc' = "Validated" /\ UNCHANGED <<failedFrom, response>>
                ELSE Fail("Received", 500)
    /\ UNCHANGED <<deps_ok, nfiles, include_eps, group_by_prefix, files, temp_dir,
                   temp_bw, output_svg, output_eps, output_group, groups,
                   processed_files, gidx, composed>>
    /\ UNCHANGED geomVars

\* Lines 146-159.
MakeTempDir ==
    /\ pc = "Validated"
    /\ pc' = "PerImageProcessing"
    /\ temp_dir' = TRUE
    /\ UNCHANGED <<failedFrom, deps_ok, nfiles, include_eps, group_by_prefix, files,
                   temp_bw, output_svg, output_eps, output_group, groups,
                   processed_files, gidx, composed, response>>
    /\ UNCHANGED geomVars

\* groups[prefix].append(pbm_path), line 199.
GroupAppend(gs, prefix, path) ==
    IF \E k \in 1..Len(gs) : gs[k].prefix = prefix
    THEN [k \in 1..Len(gs) |->
            IF gs[k].prefix = prefix
            THEN [gs[k] EXCEPT !.pbms = Append(@, path)]
            ELSE gs[k]]
    ELSE Append(gs, [prefix |-> prefix, pbms |-> <<path>>])

\* The uploads of one request have filenames of their own.
Fresh(uploads) ==
    {u \in uploads : \A j \in 1..Len(files) : files[j].filename # u.filename}

\* The outcomes to draw for a tool: all of them if it is run.
OutcomesIf(run) == IF run THEN ToolOutcomes ELSE {"not run"}

\* One iteration of the loop of lines 162-200 on the next upload u; svg, pe
\* and gs are how potrace -s, potrace -e and Ghostscript end when run.
ProcessFile ==
    /\ pc = "PerImageProcessing"
    /\ Len(files) < nfiles
    /\ \E u \in Fresh(Uploads) :
        LET i         == Len(files) + 1
            filename  == secure_filename(u.filename)
            base_name == base_name_of(filename)
            prefix    == prefix_of(base_name)
            pbm_path  == <<base_name, ".pbm">>
            decoded   == /\ allowed_file(u.filename)
                         /\ u.len <= MAX_FILE_SIZE
                         /\ u.image # Undecodable
        IN  \E svg \in OutcomesIf(decoded) :
            \E pe \in OutcomesIf(svg = "ok" /\ include_eps) :
            \E gs \in OutcomesIf(pe = "ok") :
                /\ files' = Append(files, [filename |-> u.filename, len |-> u.len,
                                           image |-> u.image, svg |-> svg])
                /\ temp_bw' = IF decoded
                              THEN Write(temp_bw, [name |-> pbm_path, src |-> i,
                                                   image |-> u.image])
                              ELSE temp_bw
                /\ output_svg' = IF svg \in {"ok", "fail_written"}
                                 THEN Write(output_svg,
                                            File(base_name, ".svg", i, svg = "ok"))
                                 ELSE output_svg
                /\ output_eps' = IF svg = "ok" /\ include_eps
                                 THEN TraceAndConvert(output_eps, base_name, "_raw.eps",
                                                      ".eps", i, pe, gs)
                                 ELSE output_eps
                /\ groups' = IF svg = "ok" THEN GroupAppend(groups, prefix, pbm_path)
                             ELSE groups
                /\ processed_files' = IF svg = "ok" THEN Append(processed_files, i)
                                      ELSE processed_files
    /\ UNCHANGED <<pc, failedFrom, deps_ok, nfiles, include_eps, group_by_prefix,
                   temp_dir, output_group, gidx, composed, response>>
    /\ UNCHANGED geomVars

\* The loop of line 162 is over.
StartGroups ==
    /\ pc = "PerImageProcessing"
    /\ Len(files) = nfiles
    /\ pc' = "GroupComposition"
    /\ UNCHANGED <<failedFrom, deps_ok, nfiles, include_eps, group_by_prefix, files,
                   temp_dir, temp_bw, output_svg, output_eps, output_group, groups,
                   processed_files, gidx, composed, response>>
    /\ UNCHANGED geomVars

\* Line 203.
GroupsRequested == group_by_prefix /\ include_eps

\* A group with a member: what line 205 would let through with < for <=.
NotEmpty(pbms) == Len(pbms) >= 1

\* Line 205, negated: the group is composed.
BigEnough(pbms) == Len(pbms) > 1

\* Image.open(p).size
SizeOf(path) == (CHOOSE f \in temp_bw : f.name = path).image

\* One iteration of the loop of lines 204-233; pe and gs as in ProcessFile.
ComposeGroup ==
    /\ pc = "GroupComposition"
    /\ GroupsRequested
    /\ gidx < Len(groups)
    /\ LET prefix    == groups[gidx + 1].prefix
           pbms      == groups[gidx + 1].pbms
           count     == Len(pbms)
           first     == SizeOf(pbms[1])
           composite == CompositeSize(count, first[1], first[2])
           fixed     == center_scale_to_canvas(composite, FINAL_SIZE)
       IN  IF ~BigEnough(pbms)
           THEN /\ gidx' = gidx + 1
                /\ UNCHANGED <<pc, failedFrom, temp_dir, temp_bw, output_svg, output_eps,
                               output_group, composed, response>>
           ELSE IF fixed.raised
           THEN /\ composed' = composed \cup {prefix}
                /\ ExceptHandler
                /\ Fail("GroupComposition", 500)
                /\ UNCHANGED gidx
           ELSE \E pe \in ToolOutcomes :
                \E gs \in OutcomesIf(pe = "ok") :
                    /\ composed' = composed \cup {prefix}
                    /\ gidx' = gidx + 1
                    /\ temp_bw' = Write(temp_bw, [name |-> <<prefix, "_merged.pbm">>,
                                                  src |-> 0, image |-> fixed.canvas])
                    /\ output_group' = TraceAndConvert(output_group, prefix,
                                                       "_final_raw.eps", "_final.eps",
                                                       0, pe, gs)
                    /\ UNCHANGED <<pc, failedFrom, temp_dir, output_svg, output_eps,
                                   response>>
    /\ UNCHANGED <<deps_ok, nfiles, include_eps, group_by_prefix, files, groups,
                   processed_files>>
    /\ UNCHANGED geomVars

\* Step 2 is over, or is not run at all (line 203).
StartPackaging ==
    /\ pc = "GroupComposition"
    /\ ~GroupsRequested \/ gidx = Len(groups)
    /\ pc' = "Packaging"
    /\ UNCHANGED <<failedFrom, deps_ok, nfiles, include_eps, group_by_prefix, files,
                   temp_dir, temp_bw, output_svg, output_eps, output_group, groups,
                   processed_files, gidx, composed, response>>
    /\ UNCHANGED geomVars

Entries(dir, arcdir) ==
    {[dir |-> arcdir, name |-> f.name, src |-> f.src, whole |-> f.whole] : f \in dir}

\* Lines 236-252: what the zip holds.
ZipEntries ==
    Entries(output_svg, "svg")
        \cup (IF include_eps
              THEN Entries(output_eps, "eps") \cup Entries(output_group, "groups")
              ELSE {})

\* Lines 235-264, or an OSError while the zip is written (lines 266-268).
Package ==
    /\ pc = "Packaging"
    /\ \E io_error \in BOOLEAN :
        IF io_error
        THEN /\ ExceptHandler
             /\ Fail("Packaging", 500)
        ELSE /\ response' = [status |-> 200, zip |-> ZipEntries]
             /\ RmTree
             /\ pc' = "Done"
             /\ UNCHANGED failedFrom
    /\ UNCHANGED <<deps_ok, nfiles, include_eps, group_by_prefix, files, groups,
                   processed_files, gidx, composed>>
    /\ UNCHANGED geomVars

Init == ReqInit

Next ==
    \/ Receive
    \/ MakeTempDir
    \/ ProcessFile
    \/ StartGroups
    \/ ComposeGroup
    \/ StartPackaging
    \/ Package

Spec == Init /\ [][Next]_vars

(***************************************************************************)
(* Claims on Spec.                                                         *)
(***************************************************************************)
StemOf(i) == base_name_of(secure_filename(files[i].filename))

\* Upload i passed the checks of lines 163 and 170.
Accepted(i) == allowed_file(files[i].filename) /\ files[i].len <= MAX_FILE_SIZE

\* Upload i is a valid file: accepted, and its bytes decode.
Valid(i) == Accepted(i) /\ files[i].image # Undecodable

RawSuffixes == {"_raw.eps", "_final_raw.eps"}

\* C1: no intermediate raw file (<name>_raw.eps, <prefix>_final_raw.eps) is
\* among the files handed to packaging, whatever the tools' outcomes.
C1_NoRawFileInBundle ==
    /\ pc = "Packaging" => \A e \in ZipEntries : e.name[2] \notin RawSuffixes
    /\ pc = "Done" => \A e \in response.zip : e.name[2] \notin RawSuffixes

\* C2: an accepted input whose binarization or outline trace failed has no
\* file in the bundle, whole or partial, and its bitmap is in no Group; the
\* request does not fail for it and the other inputs are processed.
C2_FailedInputExcluded ==
    \A i \in 1..Len(files) :
        (Accepted(i) /\ (files[i].image = Undecodable
                            \/ files[i].svg \in {"fail", "fail_written"}))
        => /\ pc \in {"GroupComposition", "Packaging"}
                => \A e \in ZipEntries : e.src # i
           /\ pc = "Done" => \A e \in response.zip : e.src # i
           /\ pc = "GroupComposition"
                => /\ \A m \in 1..Len(processed_files) : processed_files[m] # i
                   /\ \A k \in 1..Len(groups) : \A m \in 1..Len(groups[k].pbms) :
                        \A f \in temp_bw : f.name = groups[k].pbms[m] => f.src # i
           /\ failedFrom # "PerImageProcessing"
           /\ pc = "GroupComposition"
                => \A j \in 1..Len(files) :
                      (Valid(j) /\ files[j].svg = "ok")
                          => \E m \in 1..Len(processed_files) : processed_files[m] = j

\* C3: a request whose uploads are all invalid (extension, size, or bytes
\* that do not decode) ends in Failed and returns no bundle.
C3_NoValidFileRejected ==
    (pc \in {"Done", "Failed"} /\ \A i \in 1..Len(files) : ~Valid(i))
        => (pc = "Failed" /\ response.status # 200)

\* C4, as claimed: once GroupComposition is over, a Group was composed if
\* and only if group_by_prefix is true and it has more than one member.
C4_ComposedIffGroupRequested ==
    pc \in {"Packaging", "Done"}
        => \A k \in 1..Len(groups) :
              groups[k].prefix \in composed
                  <=> (group_by_prefix /\ Len(groups[k].pbms) > 1)

\* C4, amended: a Group is composed only if group_by_prefix and include_eps
\* are both true and it has more than one member (a singleton Group never
\* is), and in a request that reaches Packaging every such Group was.
C4_ComposedIffGroupAndEps ==
    \A k \in 1..Len(groups) :
        /\ groups[k].prefix \in composed
              => (group_by_prefix /\ include_eps /\ Len(groups[k].pbms) > 1)
        /\ (pc \in {"Packaging", "Done"} \/ failedFrom = "Packaging")
              => ((group_by_prefix /\ include_eps /\ Len(groups[k].pbms) > 1)
                      => groups[k].prefix \in composed)

C4_Witness ==
    /\ pc = "Done"
    /\ composed # {}
    /\ \E e \in response.zip : e.dir = "groups" /\ e.name[2] = "_final.eps"

\* C5: the request reaches Failed only from Received or from Packaging; no
\* failure of an item in PerImageProcessing or GroupComposition fails it.
C5_FailedOnlyFromReceivedOrPackaging ==
    pc = "Failed" => failedFrom \in {"Received", "Packaging"}

\* C6: when the response is returned (Done or Failed), the temporary
\* directory and every file in it are gone, on every exit path; a request
\* rejected before the directory is made leaves nothing behind.
C6_TempDirRemoved ==
    pc \in {"Done", "Failed"}
        => /\ temp_dir = FALSE
           /\ temp_bw = {} /\ output_svg = {} /\ output_eps = {} /\ output_group = {}

C6_Witness ==
    /\ pc = "Failed"
    /\ failedFrom \in {"GroupComposition", "Packaging"}
    /\ processed_files # <<>>
    /\ temp_dir = FALSE

\* C10: when GroupComposition starts, every Group holds, in processing
\* order, one entry per processed input of its GroupKey, and each entry
\* refers to the bitmap of the input that appended it.
C10_GroupsHoldOwnBitmaps ==
    (pc = "GroupComposition" /\ gidx = 0)
        => \A k \in 1..Len(groups) :
              LET HasKey(i) == prefix_of(StemOf(i)) = groups[k].prefix
                  members   == SelectSeq(processed_files, HasKey)
              IN  /\ Len(groups[k].pbms) = Len(members)
                  /\ \A m \in 1..Len(members) :
                        \E f \in temp_bw :
                            f.name = groups[k].pbms[m] /\ f.src = members[m]

(***************************************************************************)
(* Claims on GeomSpec.  The exact value of w * scale is the fraction       *)
(* (w * ExactNum) / ExactDen.                                              *)
(***************************************************************************)
WidthBinds == FINAL_SIZE[1] * image[2] <= FINAL_SIZE[2] * image[1]
ExactNum == (IF WidthBinds THEN FINAL_SIZE[1] ELSE FINAL_SIZE[2]) * ScaleNum
ExactDen == (IF WidthBinds THEN image[1] ELSE image[2]) * ScaleDen

\* round(n / d) of Python: to the nearest integer, a tie to the even one.
RoundedQuotient(n, d) ==
    LET q == n \div d
        r == n % d
    IN  IF 2 * r < d THEN q
        ELSE IF 2 * r > d THEN q + 1
        ELSE IF q % 2 = 0 THEN q ELSE q + 1

CenteredOffset ==
    <<(FINAL_SIZE[1] - fit.new_w) \div 2, (FINAL_SIZE[2] - fit.new_h) \div 2>>

\* C7, as claimed: the bitmap is resized to (round(w * scale),
\* round(h * scale)) and pasted at ((W - new_w) // 2, (H - new_h) // 2).
C7_ResizesToRounded ==
    (gstage = "fit" /\ ~fit.raised)
        => /\ fit.new_w = RoundedQuotient(image[1] * ExactNum, ExactDen)
           /\ fit.new_h = RoundedQuotient(image[2] * ExactNum, ExactDen)
           /\ fit.offset = CenteredOffset

\* The integers int() of the float product can be, the exact product being
\* n / d: its floor, or one less when the exact product is an integer.
Truncations(n, d) == {n \div d} \cup (IF n % d = 0 THEN {n \div d - 1} ELSE {})

\* C7, amended: the size asked of resize is (int(w * scale), int(h * scale)),
\* the float products truncated: floor(w * scale), or one less when
\* w * scale is an integer that the float product falls short of; when the
\* resize is done the paste offset is ((W - new_w) // 2, (H - new_h) // 2);
\* 100x50 into 3000x3000 gives 2550x1275 at (225, 862).
C7_ResizesToTruncated ==
    gstage = "fit"
        => /\ fit.new_w \in Truncations(image[1] * ExactNum, ExactDen)
           /\ fit.new_h \in Truncations(image[2] * ExactNum, ExactDen)
           /\ ~fit.raised => fit.offset = CenteredOffset
           /\ image = <<100, 50>>
                => /\ ~fit.raised
                   /\ <<fit.new_w, fit.new_h>> = <<2550, 1275>>
                   /\ fit.offset = <<225, 862>>

C7_Witness ==
    /\ gstage = "fit"
    /\ image = <<1, 4>>
    /\ <<fit.new_w, fit.new_h>> = <<637, 2550>>
    /\ fit.offset = <<1181, 225>>

\* C8: for count >= 2 same-size bitmaps, cols = ceil(sqrt(count)), rows =
\* ceil(count / cols), the composite is (cols * w) x (rows * h), bitmap i is
\* at ((i mod cols) * w, (i div cols) * h), inside the composite and in a
\* cell of its own; five 10x10 bitmaps give 30x20, bitmap 3 at (0, 10) and
\* bitmap 4 at (10, 10).
C8_GridLayout ==
    grid.cols > 0
        => LET count == bitmaps.count
               w     == bitmaps.w
               h     == bitmaps.h
           IN  /\ count >= 2
               /\ grid.cols * grid.cols >= count
               /\ (grid.cols - 1) * (grid.cols - 1) < count
               /\ grid.rows * grid.cols >= count
               /\ (grid.rows - 1) * grid.cols < count
               /\ image = <<grid.cols * w, grid.rows * h>>
               /\ \A i \in 0..(count - 1) :
                    /\ cells[i + 1] = <<(i % grid.cols) * w, (i \div grid.cols) * h>>
                    /\ i \div grid.cols < grid.rows
                    /\ cells[i + 1][1] + w <= image[1]
                    /\ cells[i + 1][2] + h <= image[2]
               /\ \A i, j \in 1..count : i # j => cells[i] # cells[j]
               /\ (count = 5 /\ w = 10 /\ h = 10)
                    => /\ image = <<30, 20>>
                       /\ cells[1] = <<0, 0>>
                       /\ cells[4] = <<0, 10>>
                       /\ cells[5] = <<10, 10>>

C8_Witness ==
    /\ gstage = "grid"
    /\ bitmaps = [count |-> 5, w |-> 10, h |-> 10]
    /\ image = <<30, 20>>
    /\ cells[5] = <<10, 10>>

\* C9: for every bitmap of positive width and height the resized size is at
\* least 1 and at most the canvas in both dimensions, the offsets are not
\* negative, and the fit is done (nothing raises).
C9_FitDefinedEverywhere ==
    gstage = "fit"
        => /\ ~fit.raised
           /\ fit.new_w >= 1 /\ fit.new_h >= 1
           /\ fit.new_w <= FINAL_SIZE[1] /\ fit.new_h <= FINAL_SIZE[2]
           /\ fit.offset[1] >= 0 /\ fit.offset[2] >= 0

====
